---- MODULE Spec2Model ----
(***************************************************************************)
(* Model of the deployment pipelines of packet_pushers_vdc_nornir:         *)
(*   src/deploy.py                (backup, render, deploy, validate,       *)
(*                                 rollback)                               *)
(*   src/after_nornir_intro_pt2.py (render, backup, dry-run, deploy)       *)
(*                                                                         *)
(* Both scripts drive per-host tasks through nr.run().  nr.run() is the    *)
(* nornir 2.x runner (the scripts import nornir.plugins.tasks...): it      *)
(* submits the task for every inventory host that is not in                *)
(* nr.data.failed_hosts to a thread pool, waits for all of them, adds the  *)
(* hosts whose task failed to nr.data.failed_hosts and returns one         *)
(* MultiResult per host it ran on (raise_on_error is off: the scripts      *)
(* inspect r[0].failed themselves).  An exception inside a task is caught  *)
(* by the runner and becomes a failed Result whose result is the           *)
(* traceback text.                                                         *)
(***************************************************************************)
EXTENDS Integers, Sequences, FiniteSets, TLC

VARIABLES
    program,                \* which script runs: "deploy" or "intro_pt2"
    stage,                  \* position of the main program
    history,                \* the stages the main program entered, in order
    run_on,                 \* hosts the current nr.run() was started on
    queue,                  \* hosts submitted to the pool, task not begun
    host_task,              \* per host: the last task begun and its status
    failed_hosts,           \* nr.data.failed_hosts
    config,                 \* task.host["config"]
    backup_config,          \* task.host["backup_config"]
    diff,                   \* task.host["diff"]
    files,                  \* the configs/, backup/ and diffs/ files
    pushes,                 \* napalm_configure calls issued so far
    validate_task_napalm,   \* AggregatedResult of nr.run(napalm_tests)
    validate_task_netmiko,  \* AggregatedResult of nr.run(netmiko_tests)
    napalm_failed_tasks,    \* determine_validate_fails(validate_task_napalm)
    netmiko_failed_tasks,   \* determine_validate_fails(validate_task_netmiko)
    failed_tasks,           \* {**napalm_failed_tasks, **netmiko_failed_tasks}
    printed,                \* what the main program printed
    exit_code,              \* process exit status, -1 while running
    peer_call,              \* ospf_peer: platform variant, device response, arguments
    peer_result,            \* ospf_peer: what the call returned or raised
    peer_report,            \* netmiko_validate: the report of that check, or the raise
    peer_pc,                \* position of the ospf_peer check
    norm_text,              \* task.host["backup_config"] of an eos host, as fetched
    norm_once,              \* the eos branch of backup_configs applied to norm_text
    norm_twice,             \* the eos branch applied to its own output
    norm_pc                 \* position of the normaliser run

vars == <<program, stage, history, run_on, queue, host_task, failed_hosts,
          config, backup_config, diff, files, pushes,
          validate_task_napalm, validate_task_netmiko,
          napalm_failed_tasks, netmiko_failed_tasks, failed_tasks,
          printed, exit_code,
          peer_call, peer_result, peer_report, peer_pc,
          norm_text, norm_once, norm_twice, norm_pc>>

peerVars == <<peer_call, peer_result, peer_report, peer_pc>>
normVars == <<norm_text, norm_once, norm_twice, norm_pc>>
pureVars == <<peerVars, normVars>>

hostVars == <<config, backup_config, diff, files, pushes>>
validateVars == <<validate_task_napalm, validate_task_netmiko>>
decideVars == <<napalm_failed_tasks, netmiko_failed_tasks, failed_tasks>>

(***************************************************************************)
(* The fleet.                                                              *)
(***************************************************************************)
NumHosts == 2

Hosts == 1 .. NumHosts

\* task.host.platform: one host per platform class, then other platforms.
platform(h) == IF h = 1 THEN "nxos" ELSE IF h = 2 THEN "eos" ELSE "ios"

\* The checks of network_tests/<host>_napalm.yaml and <host>_netmiko.yaml.
NapalmChecks == <<"get_facts">>
NetmikoChecks == <<"ospf_peer">>

Programs == {"deploy", "intro_pt2"}

\* Script with two statements of a script exchanged: deploy.py writes the
\* configs before it renders them.
Script_WriteBeforeRender(p) ==
    IF p = "deploy"
    THEN <<"BACKUP", "WRITE_BACKUP", "WRITE_CONFIG", "RENDER", "DEPLOY_REAL",
           "SLEEP", "VALIDATE_DECLARATIVE", "VALIDATE_IMPERATIVE", "DECIDE">>
    ELSE <<"RENDER", "WRITE_CONFIG", "BACKUP", "WRITE_BACKUP",
           "DEPLOY_DRY_RUN", "DEPLOY_REAL">>

\* Script with the two deployments of after_nornir_intro_pt2.py exchanged.
Script_RealBeforeDryRun(p) ==
    IF p = "deploy"
    THEN <<"BACKUP", "WRITE_BACKUP", "RENDER", "WRITE_CONFIG", "DEPLOY_REAL",
           "SLEEP", "VALIDATE_DECLARATIVE", "VALIDATE_IMPERATIVE", "DECIDE">>
    ELSE <<"RENDER", "WRITE_CONFIG", "BACKUP", "WRITE_BACKUP",
           "DEPLOY_REAL", "DEPLOY_DRY_RUN">>

\* The nr.run() calls of each script's __main__, in program order.
Script(p) ==
    IF p = "deploy"
    THEN <<"BACKUP", "WRITE_BACKUP", "RENDER", "WRITE_CONFIG", "DEPLOY_REAL",
           "SLEEP", "VALIDATE_DECLARATIVE", "VALIDATE_IMPERATIVE", "DECIDE">>
    ELSE <<"RENDER", "WRITE_CONFIG", "BACKUP", "WRITE_BACKUP",
           "DEPLOY_DRY_RUN", "DEPLOY_REAL">>

IndexOf(seq, s) == CHOOSE i \in 1 .. Len(seq) : seq[i] = s

\* The statement that follows stage s in script p ("END": falls off the end).
NextStage(p, s) ==
    LET i == IndexOf(Script(p), s)
    IN  IF i < Len(Script(p)) THEN Script(p)[i + 1] ELSE "END"

Terminal == {"DONE", "ROLLED_BACK", "ABORTED", "CRASHED"}

NoTask == [stage |-> "NONE", status |-> "none"]

Range(seq) == {seq[i] : i \in 1 .. Len(seq)}

(***************************************************************************)
(* nr.run(): start and join.                                               *)
(***************************************************************************)
\* Hosts nr.run() submits the task for (on_good=True, on_failed=False).
RunOn(failed) == Hosts \ failed

\* AllReturned that waits for the first finished task only.
AllReturned_FirstCompleted ==
    /\ queue = {}
    /\ run_on # {} => \E h \in run_on : host_task[h].status \in {"ok", "failed"}

\* The pool has been joined: every submitted host finished its task.
AllReturned ==
    /\ queue = {}
    /\ \A h \in run_on : host_task[h].status \in {"ok", "failed"}

\* AnyFailed with all() in place of any().
AnyFailed_All == \A h \in run_on : host_task[h].status = "failed"

\* any(r[0].failed is True for r in <task>.values())
AnyFailed == \E h \in run_on : host_task[h].status = "failed"

\* failed_hosts after nr.run() returned.
FailedAfterRun == failed_hosts \cup {h \in run_on : host_task[h].status = "failed"}

\* The main program calls nr.run(task=<task of stage s>).
nr_run(s) ==
    /\ stage' = s
    /\ history' = Append(history, s)
    /\ failed_hosts' = FailedAfterRun
    /\ run_on' = RunOn(failed_hosts')
    /\ queue' = run_on'

\* A pool worker begins the task of the current run for host h.
Begin(h) ==
    /\ h \in queue
    /\ queue' = queue \ {h}
    /\ host_task' = [host_task EXCEPT ![h] = [stage |-> stage, status |-> "running"]]
    /\ UNCHANGED <<pureVars, program, stage, history, run_on, failed_hosts, hostVars,
                   validateVars, decideVars, printed, exit_code>>

Running(h, s) == host_task[h] = [stage |-> s, status |-> "running"]

Finish(h, ok) ==
    host_task' = [host_task EXCEPT ![h].status = IF ok THEN "ok" ELSE "failed"]

mainVars == <<pureVars, program, stage, history, run_on, queue, failed_hosts, decideVars,
              printed, exit_code>>

(***************************************************************************)
(* The per-host tasks.                                                     *)
(***************************************************************************)
\* backup_configs: fetch the checkpoint (nxos) or the running config, then
\* normalise the eos text; the normaliser indexes infile[index + 1] and
\* raises IndexError when the last line is a six-space clause.
BackupOutcomes(h) ==
    IF platform(h) = "eos" THEN {"ok", "fetch_failed", "normalize_failed"}
    ELSE {"ok", "fetch_failed"}

backup_configs(h) ==
    /\ Running(h, "BACKUP")
    /\ \E out \in BackupOutcomes(h) :
        /\ backup_config' =
              [backup_config EXCEPT ![h] =
                  IF out = "fetch_failed" THEN @
                  ELSE IF out = "normalize_failed" THEN "raw"
                  ELSE IF platform(h) = "eos" THEN "normalized" ELSE "raw"]
        /\ Finish(h, out = "ok")
    /\ UNCHANGED <<mainVars, config, diff, files, pushes, validateVars>>

\* write_configs(task, backup): write task.host["config"] to configs/<host>
\* or task.host["backup_config"] to backup/<host>.
write_configs(h, backup) ==
    /\ Running(h, IF backup THEN "WRITE_BACKUP" ELSE "WRITE_CONFIG")
    /\ LET bucket == IF backup THEN "backup" ELSE "configs"
           present == IF backup THEN backup_config[h] # "unset"
                      ELSE config[h] # "unset"
       IN  \E written \in BOOLEAN :
             /\ files' = IF present /\ written
                         THEN [files EXCEPT ![bucket][h] = "fresh"]
                         ELSE files
             /\ Finish(h, present /\ written)
    /\ UNCHANGED <<mainVars, config, backup_config, diff, pushes, validateVars>>

\* render_configs: template_file, then task.host["config"] = r.result.
render_configs(h) ==
    /\ Running(h, "RENDER")
    /\ \E rendered \in BOOLEAN :
        /\ config' = IF rendered THEN [config EXCEPT ![h] = "rendered"] ELSE config
        /\ Finish(h, rendered)
    /\ UNCHANGED <<mainVars, backup_config, diff, files, pushes, validateVars>>

\* The payload deploy_configs builds, or "raise" when the lookup fails
\* (KeyError on task.host["config"], FileNotFoundError on backup/<host>).
Payload(h, backup) ==
    IF backup
    THEN IF files["backup"][h] = "absent" THEN "raise"
         ELSE IF files["backup"][h] = "fresh" THEN "backup_fresh"
         ELSE "backup_stale"
    ELSE IF config[h] = "unset" THEN "raise" ELSE "config"

\* Representation that reads the nxos backup file in text mode.
Representation_TextRollback(h, backup) ==
    IF platform(h) = "nxos"
    THEN IF ~backup THEN "bytes" ELSE "text"
    ELSE IF ~backup THEN "text" ELSE "text"

\* What deploy_configs hands to napalm_configure: task.host["config"].encode()
\* or open(..., "rb").read() for nxos, the str or open(..., "r").read()
\* otherwise.
Representation(h, backup) ==
    IF platform(h) = "nxos"
    THEN IF ~backup THEN "bytes" ELSE "bytes"
    ELSE IF ~backup THEN "text" ELSE "text"

Push(h, backup, dry_run, ok) ==
    [host |-> h, backup |-> backup, dry_run |-> dry_run,
     content |-> Payload(h, backup), rep |-> Representation(h, backup), ok |-> ok]

\* deploy_configs of deploy.py: napalm_configure(replace=True), no dry run.
deploy_configs(h) ==
    /\ program = "deploy"
    /\ \/ Running(h, "DEPLOY_REAL")
       \/ Running(h, "ROLLBACK")
    /\ LET backup == host_task[h].stage = "ROLLBACK"
       IN  IF Payload(h, backup) = "raise"
           THEN /\ Finish(h, FALSE)
                /\ UNCHANGED pushes
           ELSE \E ok \in BOOLEAN :
                  /\ pushes' = pushes \cup {Push(h, backup, FALSE, ok)}
                  /\ Finish(h, ok)
    /\ UNCHANGED <<mainVars, config, backup_config, diff, files, validateVars>>

\* deploy_configs of after_nornir_intro_pt2.py: dry_run and diff keywords.
deploy_configs_pt2(h) ==
    /\ program = "intro_pt2"
    /\ \/ Running(h, "DEPLOY_DRY_RUN")
       \/ Running(h, "DEPLOY_REAL")
    /\ LET dry_run == host_task[h].stage = "DEPLOY_DRY_RUN"
           write_diff == dry_run
       IN  IF Payload(h, FALSE) = "raise"
           THEN /\ Finish(h, FALSE)
                /\ UNCHANGED <<pushes, diff, files>>
           ELSE \E ok \in BOOLEAN, written \in BOOLEAN :
                  /\ pushes' = pushes \cup {Push(h, FALSE, dry_run, ok)}
                  /\ diff' = IF ok THEN [diff EXCEPT ![h] = "set"] ELSE diff
                  /\ files' = IF ok /\ write_diff /\ written
                              THEN [files EXCEPT !["diffs"][h] = "fresh"]
                              ELSE files
                  /\ Finish(h, ok /\ (write_diff => written))
    /\ UNCHANGED <<mainVars, config, backup_config, validateVars>>

(***************************************************************************)
(* Validation: the reports and determine_validate_fails.                   *)
(***************************************************************************)
\* nornir Result: a failed Result carries the traceback text as its result.
Result(failed, result) == [failed |-> failed, result |-> result]

\* napalm.base.validate.compare on two mappings: a verdict with "complies".
compare(kind) == [complies |-> kind = "match"]

\* The verdict of one check: compare(), or the skipped marker when the
\* operation raises NotImplementedError.
Verdict(kind) ==
    IF kind = "not_implemented"
    THEN [skipped |-> TRUE, reason |-> "NotImplemented"]
    ELSE compare(kind)

RECURSIVE Verdicts(_, _)
Verdicts(checks, kinds) ==
    IF Len(checks) = 0 THEN <<>>
    ELSE <<[test |-> Head(checks), output |-> Verdict(Head(kinds))]>>
         \o Verdicts(Tail(checks), Tail(kinds))

\* report.items() of napalm_validate: one verdict per check, then the two
\* bookkeeping entries "skipped" (a list) and "complies" (a bool).
napalm_validate(kinds) ==
    LET verdicts == Verdicts(NapalmChecks, kinds)
        skipped == SelectSeq(NapalmChecks,
                       LAMBDA c : kinds[IndexOf(NapalmChecks, c)] = "not_implemented")
        complies == \A i \in 1 .. Len(kinds) : kinds[i] # "mismatch"
    IN  verdicts \o <<[test |-> "skipped", output |-> skipped],
                      [test |-> "complies", output |-> complies]>>

\* report.items() of netmiko_validate: one verdict per check, no
\* bookkeeping entries.
netmiko_validate(kinds) == Verdicts(NetmikoChecks, kinds)

\* What a check of each engine can answer.  A napalm getter the driver
\* does not implement raises NotImplementedError; ospf_peer never does.
NapalmKinds == {"match", "mismatch", "not_implemented"}
NetmikoKinds == {"match", "mismatch"}

KindSeqs(checks, kindset) == [1 .. Len(checks) -> kindset]

\* napalm_tests: task.run(napalm_validate); a failing subtask fails the task.
napalm_tests(h) ==
    /\ Running(h, "VALIDATE_DECLARATIVE")
    /\ \/ /\ validate_task_napalm' = validate_task_napalm @@
                  (h :> <<Result(TRUE, "Traceback"), Result(TRUE, "Traceback")>>)
          /\ Finish(h, FALSE)
       \/ \E kinds \in KindSeqs(NapalmChecks, NapalmKinds) :
             /\ validate_task_napalm' = validate_task_napalm @@
                  (h :> <<Result(FALSE, "None"),
                          Result(FALSE, napalm_validate(kinds))>>)
             /\ Finish(h, TRUE)
    /\ UNCHANGED <<mainVars, hostVars, validate_task_netmiko>>

\* netmiko_tests: open the yaml file, then task.run(netmiko_validate).
\* netmiko_validate binds _class only for nxos and eos.
netmiko_tests(h) ==
    /\ Running(h, "VALIDATE_IMPERATIVE")
    /\ \/ /\ validate_task_netmiko' = validate_task_netmiko @@
                  (h :> <<Result(TRUE, "Traceback")>>)
          /\ Finish(h, FALSE)
       \/ /\ validate_task_netmiko' = validate_task_netmiko @@
                  (h :> <<Result(TRUE, "Traceback"), Result(TRUE, "Traceback")>>)
          /\ Finish(h, FALSE)
       \/ /\ platform(h) \in {"nxos", "eos"}
          /\ \E kinds \in KindSeqs(NetmikoChecks, NetmikoKinds) :
                /\ validate_task_netmiko' = validate_task_netmiko @@
                     (h :> <<Result(FALSE, "None"),
                             Result(FALSE, netmiko_validate(kinds))>>)
                /\ Finish(h, TRUE)
    /\ UNCHANGED <<mainVars, hostVars, validate_task_napalm>>

\* output["complies"] raises KeyError when the verdict has no such key.
ItemRaises(item) ==
    /\ item.test # "skipped"
    /\ item.test # "complies"
    /\ "complies" \notin DOMAIN item.output

\* The tests a host's report contributes: every entry that is not named
\* "skipped" or "complies" and whose output["complies"] is False.
RECURSIVE FailedList(_)
FailedList(items) ==
    IF Len(items) = 0 THEN <<>>
    ELSE LET item == Head(items)
             rest == FailedList(Tail(items))
         IN  IF item.test = "skipped" THEN rest
             ELSE IF item.test = "complies" THEN rest
             ELSE IF item.output.complies = FALSE THEN <<item.test>> \o rest
             ELSE rest

\* determine_validate_fails raises: v[1] of a one-element MultiResult
\* (IndexError), .items() of a traceback string (AttributeError), or
\* output["complies"] of a verdict without that key (KeyError).
DetermineRaises(validate_result) ==
    \E h \in DOMAIN validate_result :
        LET v == validate_result[h]
        IN  \/ Len(v) < 2
            \/ /\ Len(v) >= 2
               /\ v[2].failed
            \/ /\ Len(v) >= 2
               /\ ~v[2].failed
               /\ \E i \in 1 .. Len(v[2].result) : ItemRaises(v[2].result[i])

\* determine_validate_fails when it returns: host -> list of failed tests,
\* with a key only for hosts that have one.
determine_validate_fails(validate_result) ==
    LET failing == {h \in DOMAIN validate_result :
                       Len(FailedList(validate_result[h][2].result)) > 0}
    IN  [h \in failing |-> FailedList(validate_result[h][2].result)]

\* {**a, **b}: the entry of b replaces the entry of a for the same key.
DictMerge(a, b) ==
    [h \in DOMAIN a \cup DOMAIN b |-> IF h \in DOMAIN b THEN b[h] ELSE a[h]]

(***************************************************************************)
(* The main programs.                                                      *)
(***************************************************************************)
RunStages == {"BACKUP", "WRITE_BACKUP", "RENDER", "WRITE_CONFIG",
              "DEPLOY_DRY_RUN", "DEPLOY_REAL"}

\* The main program moves to a statement that is not an nr.run() call.
Enter(s) ==
    /\ stage' = s
    /\ history' = Append(history, s)
    /\ failed_hosts' = FailedAfterRun
    /\ run_on' = {}
    /\ queue' = {}

Exit(s, code) ==
    /\ stage' = s
    /\ exit_code' = code
    /\ failed_hosts' = FailedAfterRun
    /\ run_on' = {}
    /\ queue' = {}
    /\ UNCHANGED history

\* print_result(<task>) when a host failed, else the success message
\* (deploy.py); after_nornir_intro_pt2.py prints nothing between stages.
Report(s) ==
    IF program = "deploy"
    THEN printed \cup {<<s, IF AnyFailed THEN "print_result" ELSE "success">>}
    ELSE printed

\* The first nr.run() of the script.
Start ==
    /\ stage = "INIT"
    /\ nr_run(Script(program)[1])
    /\ UNCHANGED <<pureVars, program, host_task, hostVars, validateVars, decideVars,
                   printed, exit_code>>

\* deploy.py: a failed backup ends the run with sys.exit(1).
BackupAbort ==
    /\ program = "deploy"
    /\ stage = "BACKUP"
    /\ AllReturned
    /\ AnyFailed
    /\ printed' = Report("BACKUP")
    /\ Exit("ABORTED", 1)
    /\ UNCHANGED <<pureVars, program, host_task, hostVars, validateVars, decideVars>>

\* nr.run() returned; report, then the next nr.run() of the script.
StageReturn ==
    /\ stage \in RunStages
    /\ AllReturned
    /\ ~(program = "deploy" /\ stage = "BACKUP" /\ AnyFailed)
    /\ NextStage(program, stage) \in RunStages
    /\ printed' = Report(stage)
    /\ nr_run(NextStage(program, stage))
    /\ UNCHANGED <<pureVars, program, host_task, hostVars, validateVars, decideVars,
                   exit_code>>

\* deploy.py: the deployment returned; report and start the ten-second sleep.
DeployReturn ==
    /\ stage \in RunStages
    /\ AllReturned
    /\ NextStage(program, stage) = "SLEEP"
    /\ printed' = Report(stage)
    /\ Enter("SLEEP")
    /\ UNCHANGED <<pureVars, program, host_task, hostVars, validateVars, decideVars,
                   exit_code>>

\* deploy.py: time.sleep(10) is over; nr.run(task=napalm_tests).
Sleep ==
    /\ stage = "SLEEP"
    /\ nr_run(NextStage(program, stage))
    /\ UNCHANGED <<pureVars, program, host_task, hostVars, validateVars, decideVars,
                   printed, exit_code>>

\* deploy.py: determine_validate_fails(validate_task_napalm), then
\* nr.run(task=netmiko_tests); an exception ends the process.
NapalmReturn ==
    /\ stage = "VALIDATE_DECLARATIVE"
    /\ AllReturned
    /\ IF DetermineRaises(validate_task_napalm)
       THEN /\ Exit("CRASHED", 1)
            /\ UNCHANGED napalm_failed_tasks
       ELSE /\ napalm_failed_tasks' = determine_validate_fails(validate_task_napalm)
            /\ nr_run(NextStage(program, stage))
            /\ UNCHANGED exit_code
    /\ UNCHANGED <<pureVars, program, host_task, hostVars, validateVars,
                   netmiko_failed_tasks, failed_tasks, printed>>

\* deploy.py: nr.run(task=netmiko_tests) returned.
NetmikoReturn ==
    /\ stage = "VALIDATE_IMPERATIVE"
    /\ AllReturned
    /\ Enter(NextStage(program, stage))
    /\ UNCHANGED <<pureVars, program, host_task, hostVars, validateVars, decideVars,
                   printed, exit_code>>

\* deploy.py: determine_validate_fails(validate_task_netmiko), the merge of
\* both dicts, and the branch on failed_tasks.
Decide ==
    /\ stage = "DECIDE"
    /\ IF DetermineRaises(validate_task_netmiko)
       THEN /\ Exit("CRASHED", 1)
            /\ UNCHANGED <<netmiko_failed_tasks, failed_tasks, printed>>
       ELSE /\ netmiko_failed_tasks' = determine_validate_fails(validate_task_netmiko)
            /\ failed_tasks' = DictMerge(napalm_failed_tasks, netmiko_failed_tasks')
            /\ IF DOMAIN failed_tasks' # {}
               THEN /\ printed' = printed \cup {<<"DECIDE", "failed_tasks">>}
                    /\ nr_run("ROLLBACK")
                    /\ UNCHANGED exit_code
               ELSE /\ printed' = printed \cup {<<"DECIDE", "success">>}
                    /\ Exit("DONE", 0)
    /\ UNCHANGED <<pureVars, program, host_task, hostVars, validateVars,
                   napalm_failed_tasks>>

\* RollbackReturn that runs the rollback again when a host failed it.
RollbackReturn_Retry ==
    /\ stage = "ROLLBACK"
    /\ AllReturned
    /\ printed' = Report("ROLLBACK")
    /\ IF AnyFailed
       THEN /\ nr_run("ROLLBACK")
            /\ UNCHANGED exit_code
       ELSE Exit("ROLLED_BACK", 0)
    /\ UNCHANGED <<pureVars, program, host_task, hostVars, validateVars, decideVars>>

\* deploy.py: the rollback returned; report and fall off the end.
RollbackReturn ==
    /\ stage = "ROLLBACK"
    /\ AllReturned
    /\ printed' = Report("ROLLBACK")
    /\ Exit("ROLLED_BACK", 0)
    /\ UNCHANGED <<pureVars, program, host_task, hostVars, validateVars, decideVars>>

\* after_nornir_intro_pt2.py: print_result(deploy_task) and the end.
ScriptEnd ==
    /\ stage \in RunStages
    /\ AllReturned
    /\ NextStage(program, stage) = "END"
    /\ printed' = printed \cup {<<stage, "print_result">>}
    /\ Exit("DONE", 0)
    /\ UNCHANGED <<pureVars, program, host_task, hostVars, validateVars, decideVars>>

(***************************************************************************)
(* The specification.                                                      *)
(***************************************************************************)
\* What a bucket file of a host is before the run: absent, or left there by
\* an earlier run.
PriorFiles == {"absent", "stale"}

\* No ospf_peer check and no normaliser run is in progress.
PeerIdle ==
    /\ peer_call = "none"
    /\ peer_result = "none"
    /\ peer_report = "none"
    /\ peer_pc = "idle"

NormIdle ==
    /\ norm_text = <<>>
    /\ norm_once = "none"
    /\ norm_twice = "none"
    /\ norm_pc = "idle"

Init ==
    /\ PeerIdle
    /\ NormIdle
    /\ program \in Programs
    /\ stage = "INIT"
    /\ history = <<>>
    /\ run_on = {}
    /\ queue = {}
    /\ host_task = [h \in Hosts |-> NoTask]
    /\ failed_hosts = {}
    /\ config = [h \in Hosts |-> "unset"]
    /\ backup_config = [h \in Hosts |-> "unset"]
    /\ diff = [h \in Hosts |-> "unset"]
    /\ \E prior \in PriorFiles :
          files = [b \in {"configs", "backup", "diffs"} |-> [h \in Hosts |-> prior]]
    /\ pushes = {}
    /\ validate_task_napalm = <<>>
    /\ validate_task_netmiko = <<>>
    /\ napalm_failed_tasks = <<>>
    /\ netmiko_failed_tasks = <<>>
    /\ failed_tasks = <<>>
    /\ printed = {}
    /\ exit_code = -1

Next ==
    \/ Start
    \/ \E h \in Hosts : Begin(h)
    \/ \E h \in Hosts : backup_configs(h)
    \/ \E h \in Hosts : write_configs(h, TRUE)
    \/ \E h \in Hosts : write_configs(h, FALSE)
    \/ \E h \in Hosts : render_configs(h)
    \/ \E h \in Hosts : deploy_configs(h)
    \/ \E h \in Hosts : deploy_configs_pt2(h)
    \/ \E h \in Hosts : napalm_tests(h)
    \/ \E h \in Hosts : netmiko_tests(h)
    \/ BackupAbort
    \/ StageReturn
    \/ DeployReturn
    \/ Sleep
    \/ NapalmReturn
    \/ NetmikoReturn
    \/ Decide
    \/ RollbackReturn
    \/ ScriptEnd

Spec == Init /\ [][Next]_vars

(***************************************************************************)
(* Properties.                                                             *)
(***************************************************************************)
EarlyStages == {"RENDER", "WRITE_CONFIG", "BACKUP", "WRITE_BACKUP"}

RealPushes == {p \in pushes : ~p.dry_run}

\* The verdict of check c in host h's report has complies explicitly false.
CompliesFalse(validate_result, h, c) ==
    /\ h \in DOMAIN validate_result
    /\ Len(validate_result[h]) >= 2
    /\ ~validate_result[h][2].failed
    /\ \E i \in 1 .. Len(validate_result[h][2].result) :
          LET item == validate_result[h][2].result[i]
          IN  /\ item.test = c
              /\ "complies" \in DOMAIN item.output
              /\ item.output.complies = FALSE

\* The verdict of check c in host h's report is the skipped marker.
IsSkipped(validate_result, h, c) ==
    /\ h \in DOMAIN validate_result
    /\ Len(validate_result[h]) >= 2
    /\ ~validate_result[h][2].failed
    /\ \E i \in 1 .. Len(validate_result[h][2].result) :
          LET item == validate_result[h][2].result[i]
          IN  /\ item.test = c
              /\ "skipped" \in DOMAIN item.output

\* Every (host, check) pair, of either engine, with complies explicitly false.
ExplicitFalsePairs ==
    {hc \in Hosts \X Range(NapalmChecks) :
        CompliesFalse(validate_task_napalm, hc[1], hc[2])}
    \cup
    {hc \in Hosts \X Range(NetmikoChecks) :
        CompliesFalse(validate_task_netmiko, hc[1], hc[2])}

\* The (host, check) pairs of a host -> list-of-tests dict.
Pairs(ft) == UNION {{<<h, ft[h][i]>> : i \in 1 .. Len(ft[h])} : h \in DOMAIN ft}

\* Every validation task of both engines returned a report.
AllReports(validate_result) ==
    \A h \in DOMAIN validate_result :
        /\ Len(validate_result[h]) >= 2
        /\ ~validate_result[h][2].failed

RollbackIssued == "ROLLBACK" \in Range(history)

IsPrefix(a, b) ==
    /\ Len(a) <= Len(b)
    /\ \A i \in 1 .. Len(a) : a[i] = b[i]

\* C1: a run in which a host has failed at the render, write-config, backup
\* or write-backup stage issues no real (non-dry-run) push to any host and
\* ends only in ABORTED.
C1_EarlyAbort ==
    \A h \in Hosts :
        (host_task[h].status = "failed" /\ host_task[h].stage \in EarlyStages)
        => /\ RealPushes = {}
           /\ stage \in Terminal => stage = "ABORTED"

\* C2: once both validation engines have run and the process has ended, a
\* rollback push was issued if and only if some verdict of some host, from
\* either engine, has complies explicitly false; without such a verdict
\* success is reported.
C2_RollbackTrigger ==
    (program = "deploy" /\ "DECIDE" \in Range(history) /\ stage \in Terminal)
    => /\ RollbackIssued <=> ExplicitFalsePairs # {}
       /\ ExplicitFalsePairs = {} => <<"DECIDE", "success">> \in printed

\* C3: once the failed set is computed it holds exactly the (host, check)
\* pairs, of both engines, whose verdict has complies explicitly false.
C3_FailedSetExact ==
    (program = "deploy" /\ stage \in {"ROLLBACK", "ROLLED_BACK", "DONE"})
    => Pairs(failed_tasks) = ExplicitFalsePairs

\* C4: when the run ends in ROLLED_BACK, every host of the fleet received a
\* real push of its backup, and a failed rollback push was reported.
C4_FleetWideRollback ==
    stage = "ROLLED_BACK"
    => /\ \A h \in Hosts :
            \E p \in pushes : p.host = h /\ p.backup /\ ~p.dry_run
       /\ (\E p \in pushes : p.backup /\ ~p.ok)
            => <<"ROLLBACK", "print_result">> \in printed

\* C5: once the real deployment has been issued, no validation error ends
\* the pipeline with an exception.
C5_NoValidationException ==
    (program = "deploy" /\ "DEPLOY_REAL" \in Range(history))
    => stage # "CRASHED"

\* C6: when every validation task returned a report, a verdict marked
\* skipped neither makes the computation of the failed set raise nor puts
\* its (host, check) pair in the failed set.
C6_SkippedExcluded ==
    (/\ program = "deploy"
     /\ AllReports(validate_task_napalm)
     /\ AllReports(validate_task_netmiko))
    => \A h \in Hosts : \A c \in Range(NapalmChecks) :
          IsSkipped(validate_task_napalm, h, c)
          => /\ stage # "CRASHED"
             /\ <<h, c>> \notin Pairs(napalm_failed_tasks)
             /\ <<h, c>> \notin Pairs(failed_tasks)

\* The position of a stage in the run.
StageIndex(s) ==
    IF s = "ROLLBACK" THEN Len(Script(program)) + 1
    ELSE IF s \in Range(Script(program)) THEN IndexOf(Script(program), s)
    ELSE 0

\* No host has begun a later stage than the one another host still runs.
Barrier ==
    \A g \in Hosts : host_task[g].status = "running"
        => \A h \in Hosts :
              StageIndex(host_task[h].stage) <= StageIndex(host_task[g].stage)

\* A submitted host leaves the pool's queue only by beginning its task.
Attempted ==
    \A h \in queue :
        h \notin queue' => host_task'[h] = [stage |-> stage, status |-> "running"]

\* C7: in every interleaving no host begins stage N+1 while a host is still
\* in stage N, and every host submitted to a stage attempts it whatever the
\* outcome of the other hosts.
C7_StageBarrier == []Barrier /\ [][Attempted]_vars

\* C7 witness: host 1 has failed a stage that host 2 is still running.
C7_Witness ==
    /\ host_task[1] = [stage |-> "RENDER", status |-> "failed"]
    /\ host_task[2] = [stage |-> "RENDER", status |-> "running"]

\* The stage order the specification states.
SpecOrder ==
    <<"RENDER", "WRITE_CONFIG", "BACKUP", "WRITE_BACKUP", "DEPLOY_DRY_RUN",
      "DEPLOY_REAL", "SLEEP", "VALIDATE_DECLARATIVE", "VALIDATE_IMPERATIVE",
      "DECIDE">>

DryRunFirst ==
    \A p \in RealPushes :
        ~p.backup => \E q \in pushes :
                        q.host = p.host /\ q.dry_run /\ q.content = p.content

DeployOrder ==
    <<"BACKUP", "WRITE_BACKUP", "RENDER", "WRITE_CONFIG", "DEPLOY_REAL",
      "SLEEP", "VALIDATE_DECLARATIVE", "VALIDATE_IMPERATIVE", "DECIDE",
      "ROLLBACK">>

Pt2Order ==
    <<"RENDER", "WRITE_CONFIG", "BACKUP", "WRITE_BACKUP", "DEPLOY_DRY_RUN",
      "DEPLOY_REAL">>

C9_Lifecycle ==
    \A h \in Hosts :
        LET t == host_task[h]
        IN  /\ t.stage \in {"WRITE_CONFIG", "DEPLOY_DRY_RUN", "DEPLOY_REAL"}
                 => config[h] = "rendered"
            /\ t.stage = "WRITE_BACKUP" => backup_config[h] # "unset"
            /\ t.stage = "ROLLBACK" => files["backup"][h] = "fresh"

\* C9 witness: a host whose backup file was stale before the run has issued
\* its rollback push while another host failed an earlier stage.
C9_Witness ==
    \E h \in Hosts :
        /\ host_task[h] = [stage |-> "ROLLBACK", status |-> "ok"]
        /\ files["configs"][h] = "fresh"
        /\ \E p \in pushes : p.host = h /\ p.backup /\ p.content = "backup_fresh"
        /\ \E g \in Hosts : host_task[g].status = "failed"

\* C10: deploy.py exits with 0 only when no host failed a stage and no
\* check failed compliance, and with a non-zero code when an early stage
\* aborted the run or the rollback push failed for a host.
C10_ExitContract ==
    (program = "deploy" /\ stage \in Terminal)
    => /\ exit_code = 0
            => /\ \A h \in Hosts : host_task[h].status = "ok"
               /\ failed_hosts = {}
               /\ ExplicitFalsePairs = {}
       /\ (stage = "ABORTED" \/ \E p \in pushes : p.backup /\ ~p.ok)
            => exit_code # 0

(***************************************************************************)
(* The eos branch of backup_configs (the backup normaliser), on its own.   *)
(* A text is a sequence of characters, a line a sequence of characters     *)
(* without "\n".                                                           *)
(***************************************************************************)
pipelineVars == <<program, stage, history, run_on, queue, host_task,
                  failed_hosts, hostVars, validateVars, decideVars, printed,
                  exit_code>>

\* The pipeline is not running (the function specifications).
PipelineParked ==
    /\ program = "deploy"
    /\ stage = "PARKED"
    /\ history = <<>>
    /\ run_on = {}
    /\ queue = {}
    /\ host_task = [h \in Hosts |-> NoTask]
    /\ failed_hosts = {}
    /\ config = [h \in Hosts |-> "unset"]
    /\ backup_config = [h \in Hosts |-> "unset"]
    /\ diff = [h \in Hosts |-> "unset"]
    /\ files = [b \in {"configs", "backup", "diffs"} |-> [h \in Hosts |-> "absent"]]
    /\ pushes = {}
    /\ validate_task_napalm = <<>>
    /\ validate_task_netmiko = <<>>
    /\ napalm_failed_tasks = <<>>
    /\ netmiko_failed_tasks = <<>>
    /\ failed_tasks = <<>>
    /\ printed = {}
    /\ exit_code = -1

\* str.lstrip(): the line without its leading spaces.
RECURSIVE lstrip(_)
lstrip(line) ==
    IF Len(line) = 0 THEN line
    ELSE IF Head(line) = " " THEN lstrip(Tail(line))
    ELSE line

\* len(line) - len(line.lstrip())
LeadingSpaces(line) == Len(line) - Len(lstrip(line))

\* text.split("\n")
RECURSIVE split(_)
split(text) ==
    IF Len(text) = 0 THEN << <<>> >>
    ELSE LET rest == split(Tail(text))
         IN  IF Head(text) = "\n" THEN << <<>> >> \o rest
             ELSE << <<Head(text)>> \o Head(rest) >> \o Tail(rest)

\* "\n".join(lines)
RECURSIVE join(_)
join(lines) ==
    IF Len(lines) = 0 THEN <<>>
    ELSE IF Len(lines) = 1 THEN lines[1]
    ELSE lines[1] \o <<"\n">> \o join(Tail(lines))

\* f"{indent}!" with indent = " " * (leading spaces of the clause - 3)
Terminator(line) == [k \in 1 .. (LeadingSpaces(line) - 3) |-> " "] \o <<"!">>

\* infile.insert(index + 1, x), index + 1 being position i + 1 counted from 1
Insert(infile, i, x) ==
    SubSeq(infile, 1, i) \o <<x>> \o SubSeq(infile, i + 1, Len(infile))

\* The loop over enumerate(infile) from position i on; the list grows while
\* it is iterated, and infile[index + 1] raises IndexError past its end.
RECURSIVE Scan(_, _)
Scan(infile, i) ==
    IF i > Len(infile) THEN [raised |-> FALSE, infile |-> infile]
    ELSE IF LeadingSpaces(infile[i]) = 6
         THEN IF i + 1 > Len(infile)
              THEN [raised |-> TRUE, infile |-> infile]
              ELSE IF LeadingSpaces(infile[i + 1]) # 6
                   THEN Scan(Insert(infile, i, Terminator(infile[i])), i + 1)
                   ELSE Scan(infile, i + 1)
         ELSE Scan(infile, i + 1)

\* The eos branch of backup_configs on a backup text: the new
\* task.host["backup_config"], or the IndexError.
BackupNormalizer(text) ==
    LET r == Scan(split(text), 1)
    IN  IF r.raised THEN [raised |-> TRUE, outfile |-> text]
        ELSE [raised |-> FALSE, outfile |-> join(r.infile)]

\* Longest backup text of the normaliser runs, in lines.
MaxLines == 3

\* Lines of an eos backup: a top-level line, a three-space line, a
\* six-space clause, a terminator already in the text, an empty line and a
\* line of six spaces.
NormLines ==
    { <<"r">>,
      <<" ", " ", " ", "v">>,
      <<" ", " ", " ", " ", " ", " ", "n">>,
      <<" ", " ", " ", "!">>,
      <<>>,
      <<" ", " ", " ", " ", " ", " ">> }

\* The normaliser runs on the fetched text.
Normalize ==
    /\ norm_pc = "fetched"
    /\ norm_once' = BackupNormalizer(norm_text)
    /\ norm_pc' = "once"
    /\ UNCHANGED <<pipelineVars, peerVars, norm_text, norm_twice>>

\* The normaliser runs on its own output.
NormalizeAgain ==
    /\ norm_pc = "once"
    /\ ~norm_once.raised
    /\ norm_twice' = BackupNormalizer(norm_once.outfile)
    /\ norm_pc' = "twice"
    /\ UNCHANGED <<pipelineVars, peerVars, norm_text, norm_once>>

InitNorm ==
    /\ PipelineParked
    /\ PeerIdle
    /\ \E n \in 1 .. MaxLines : \E lines \in [1 .. n -> NormLines] :
          norm_text = join(lines)
    /\ norm_once = "none"
    /\ norm_twice = "none"
    /\ norm_pc = "fetched"

NextNorm ==
    \/ Normalize
    \/ NormalizeAgain

SpecNorm == InitNorm /\ [][NextNorm]_vars

\* C12: the normaliser applied to its own output returns that output
\* unchanged.
C12_Idempotent ==
    norm_pc = "twice"
    => /\ ~norm_twice.raised
       /\ norm_twice.outfile = norm_once.outfile

\* What C15 states: every input line in order, each six-space line whose
\* following input line is not a six-space line followed by one "   !".
RECURSIVE Expected(_)
Expected(lines) ==
    IF Len(lines) = 0 THEN <<>>
    ELSE IF /\ LeadingSpaces(lines[1]) = 6
            /\ Len(lines) > 1
            /\ LeadingSpaces(lines[2]) # 6
         THEN <<lines[1], <<" ", " ", " ", "!">> >> \o Expected(Tail(lines))
         ELSE <<lines[1]>> \o Expected(Tail(lines))

\* C15: for every input the normaliser returns the input lines, unchanged
\* and in order, with exactly one "   !" line after each six-space line
\* whose following input line is not a six-space line, and nothing else.
C15_NormalizerResult ==
    norm_pc \in {"once", "twice"}
    => /\ ~norm_once.raised
       /\ split(norm_once.outfile) = Expected(split(norm_text))

\* C16: for every backup text the normaliser returns without raising, and
\* a six-space clause on the last line gets no terminator.
C16_EndOfBuffer ==
    norm_pc \in {"once", "twice"}
    => /\ ~norm_once.raised
       /\ LET inl == split(norm_text)
              outl == split(norm_once.outfile)
          IN  LeadingSpaces(inl[Len(inl)]) = 6 => outl[Len(outl)] = inl[Len(inl)]

(***************************************************************************)
(* The peer validators (NXOSNetmikoTests.ospf_peer, EOSNetmikoTests        *)
(* .ospf_peer) and netmiko_validate around them, on their own.  A decoded  *)
(* JSON value is tagged: [t |-> "dict", v |-> key -> value] or             *)
(* [t |-> "list", v |-> sequence]; the leaves of a neighbor entry are      *)
(* strings.                                                                *)
(***************************************************************************)
\* Longest neighbor list a device returns.
MaxPeers == 2

\* _kwargs of the check: the requested peer.
peer_id == "1.1.1.1"
peer_address == "10.0.0.1"

\* Neighbors a device can report: the requested peer (in two adjacency
\* states), a neighbor with only the router id, one with only the
\* address, and a stranger.
Neighbors ==
    { [rid |-> "1.1.1.1", addr |-> "10.0.0.1", state |-> "full"],
      [rid |-> "1.1.1.1", addr |-> "10.0.0.1", state |-> "init"],
      [rid |-> "1.1.1.1", addr |-> "10.0.0.2", state |-> "full"],
      [rid |-> "2.2.2.2", addr |-> "10.0.0.1", state |-> "full"],
      [rid |-> "2.2.2.2", addr |-> "10.0.0.2", state |-> "full"] }

Dict(k, val) == [t |-> "dict", v |-> (k :> val)]
EmptyDict == [t |-> "dict", v |-> <<>>]
List(seq) == [t |-> "list", v |-> seq]

\* path[1] : { path[2] : ... { path[n] : leaf } }
RECURSIVE Nest(_, _)
Nest(path, leaf) ==
    IF Len(path) = 0 THEN leaf
    ELSE Dict(Head(path), Nest(Tail(path), leaf))

\* The keys ospf_peer subscripts, outermost first.
NxosPath == <<"TABLE_ctx", "ROW_ctx", "TABLE_nbr", "ROW_nbr">>
EosPath == <<"vrfs", "default", "instList", "1", "ospfNeighborEntries">>
Path(plat) == IF plat = "nxos" THEN NxosPath ELSE EosPath

\* One neighbor entry as the platform's JSON spells it.
Entry(plat, n) ==
    IF plat = "nxos"
    THEN [t |-> "dict", v |-> [rid |-> n.rid, addr |-> n.addr, state |-> n.state]]
    ELSE [t |-> "dict", v |-> [routerId |-> n.rid, interfaceAddress |-> n.addr,
                               adjacencyState |-> n.state]]

\* What send_command returns, decoded: a neighbor list, the bare mapping
\* nxos sends for a single neighbor, or a response that stops short of
\* the key at position depth of the path.
Response(call) ==
    LET path == Path(call.platform)
    IN  CASE call.shape = "list" ->
               Nest(path, List([k \in 1 .. Len(call.nbrs) |->
                                    Entry(call.platform, call.nbrs[k])]))
          [] call.shape = "dict" ->
               Nest(path, Entry(call.platform, call.nbrs[1]))
          [] OTHER ->
               Nest(SubSeq(path, 1, call.depth - 1), EmptyDict)

\* The responses of one platform.
Calls(plat) ==
    { [platform |-> plat, shape |-> "list", depth |-> 0, nbrs |-> nbrs] :
        nbrs \in UNION { [1 .. n -> Neighbors] : n \in 0 .. MaxPeers } }
    \cup { [platform |-> plat, shape |-> "dict", depth |-> 0, nbrs |-> <<n>>] :
            n \in IF plat = "nxos" THEN Neighbors ELSE {} }
    \cup { [platform |-> plat, shape |-> "missing", depth |-> d, nbrs |-> <<>>] :
            d \in 1 .. Len(Path(plat)) }

\* r[path[1]][path[2]]...: the value, or the KeyError of the first
\* missing key.
RECURSIVE Lookup(_, _)
Lookup(r, path) ==
    IF Len(path) = 0 THEN [raised |-> "none", value |-> r]
    ELSE IF Head(path) \in DOMAIN r.v
         THEN Lookup(r.v[Head(path)], Tail(path))
         ELSE [raised |-> "KeyError", value |-> EmptyDict]

\* str.upper() on the adjacency states.
upper(str) ==
    CASE str = "full" -> "FULL"
      [] str = "init" -> "INIT"
      [] OTHER -> str

\* The tail of both ospf_peer: not peer / len(peer) != 1 / peer[0].
PeerResult(peer, statekey) ==
    IF Len(peer) = 0
    THEN [error |-> "No matching peer found."]
    ELSE IF Len(peer) # 1
         THEN [error |-> "Multiple peer matches, something went wrong."]
         ELSE [success |-> [state |-> upper(peer[1].v[statekey])]]

NxosMatch(e) == e.v["rid"] = peer_id /\ e.v["addr"] = peer_address
EosMatch(e) == e.v["routerId"] = peer_id /\ e.v["interfaceAddress"] = peer_address

\* NXOSNetmikoTests.ospf_peer on the decoded response r.  A KeyError of
\* the subscripts gives peers = False; a list is filtered; a dict is
\* wrapped as it is.  None, False and the empty list are all falsy: <<>>.
NXOS_ospf_peer(r) ==
    LET peers == Lookup(r, NxosPath)
        peer == IF peers.raised = "KeyError" THEN <<>>
                ELSE IF peers.value.t = "list"
                     THEN SelectSeq(peers.value.v, NxosMatch)
                     ELSE <<peers.value>>
    IN  [raised |-> "none", result |-> PeerResult(peer, "state")]

\* EOSNetmikoTests.ospf_peer on the decoded response r: the subscripts
\* are outside any try.
EOS_ospf_peer(r) ==
    LET peers == Lookup(r, EosPath)
    IN  IF peers.raised = "KeyError"
        THEN [raised |-> "KeyError", result |-> [error |-> "KeyError"]]
        ELSE [raised |-> "none",
              result |-> PeerResult(SelectSeq(peers.value.v, EosMatch),
                                    "adjacencyState")]

\* getattr(_class, "ospf_peer")(**kwargs) against a device that answers
\* Response(call).
ospf_peer(call) ==
    IF call.platform = "nxos"
    THEN NXOS_ospf_peer(Response(call))
    ELSE EOS_ospf_peer(Response(call))

\* The validation source of a host: two ospf_peer checks, labelled by
\* their _name.
PeerChecks == <<"ospf_peer_a", "ospf_peer_b">>

\* The expected results of a check once _name and _kwargs are popped.
expected_results == [success |-> [state |-> "FULL"]]

\* npval.compare(expected_results, actual_results): every expected key
\* must be in the actual results with the expected value.
npval_compare(expected, actual) ==
    [complies |-> /\ "success" \in DOMAIN actual
                  /\ actual.success.state = expected.success.state]

\* One turn of the loop of netmiko_validate: the device answers, ospf_peer
\* runs, and compare() files the verdict under the check's key.  Only
\* NotImplementedError is caught, and ospf_peer never raises it: any other
\* exception leaves netmiko_validate, and the report with it.  After the
\* last check the function returns the report.
ValidateCheck ==
    /\ peer_pc = "running"
    /\ Len(peer_report) < Len(PeerChecks)
    /\ \E call \in Calls(peer_call.platform) :
          LET actual_results == ospf_peer(call)
              key == PeerChecks[Len(peer_report) + 1]
          IN  /\ peer_call' = call
              /\ peer_result' = actual_results
              /\ IF actual_results.raised # "none"
                 THEN /\ peer_report' = peer_report
                      /\ peer_pc' = "raised"
                 ELSE /\ peer_report' = Append(peer_report,
                            [test |-> key,
                             output |-> npval_compare(expected_results,
                                                      actual_results.result)])
                      /\ peer_pc' = IF Len(peer_report) + 1 = Len(PeerChecks)
                                    THEN "returned" ELSE "running"
    /\ UNCHANGED <<pipelineVars, normVars>>

InitPeer ==
    /\ PipelineParked
    /\ NormIdle
    /\ \E plat \in {"nxos", "eos"} :
          peer_call = [platform |-> plat, shape |-> "none", depth |-> 0, nbrs |-> <<>>]
    /\ peer_result = "none"
    /\ peer_report = <<>>
    /\ peer_pc = "running"

NextPeer == ValidateCheck

SpecPeer == InitPeer /\ [][NextPeer]_vars

\* The number of neighbors of a response that match the requested peer.
Matches(call) ==
    Cardinality({k \in 1 .. Len(call.nbrs) :
                    /\ call.nbrs[k].rid = peer_id
                    /\ call.nbrs[k].addr = peer_address})

TheMatch(call) ==
    call.nbrs[CHOOSE k \in 1 .. Len(call.nbrs) :
                 /\ call.nbrs[k].rid = peer_id
                 /\ call.nbrs[k].addr = peer_address]

\* C11: on both platforms, with m the number of returned neighbors that
\* match the requested router id and address: m = 0 gives exactly the
\* no-matching-peer error, m = 1 gives success with the upper-cased state
\* of that neighbor, m >= 2 gives the multiple-match error; and no
\* response makes ospf_peer raise.
C11_PeerResultPolicy ==
    peer_call.shape # "none"
    => /\ peer_result.raised = "none"
       /\ peer_call.shape \in {"list", "dict"}
          => LET m == Matches(peer_call)
                 result == peer_result.result
             IN  /\ m = 0 => /\ DOMAIN result = {"error"}
                             /\ result.error = "No matching peer found."
                 /\ m = 1 => /\ DOMAIN result = {"success"}
                             /\ result.success.state
                                  = upper(TheMatch(peer_call).state)
                 /\ m >= 2 => /\ DOMAIN result = {"error"}
                              /\ result.error
                                   = "Multiple peer matches, something went wrong."

\* C14: on both platforms a response that lacks an expected key becomes
\* an error verdict of that check: no exception leaves netmiko_validate,
\* and the checks after it are evaluated, so that the returned report has
\* a verdict for every check.
C14_ParseErrorVerdict ==
    /\ peer_pc # "raised"
    /\ peer_call.shape = "missing"
       => /\ peer_result.raised = "none"
          /\ DOMAIN peer_result.result = {"error"}
          /\ Len(peer_report) > 0
          /\ ~peer_report[Len(peer_report)].output.complies
    /\ peer_pc = "returned" => Len(peer_report) = Len(PeerChecks)

\* C17: on nxos a bare mapping M gives the result of the one-element
\* list [M]: M goes through the same filter, and a single neighbor that
\* is not the requested peer gives the no-matching-peer error.
C17_SingleNeighbor ==
    (peer_call.platform = "nxos" /\ peer_call.shape = "dict")
    => /\ peer_result = ospf_peer([peer_call EXCEPT !.shape = "list"])
       /\ Matches(peer_call) = 0
          => /\ DOMAIN peer_result.result = {"error"}
             /\ peer_result.result.error = "No matching peer found."

\* C13: every push to an nxos host carries bytes, for a fresh deployment and
\* for a rollback alike, every push to another platform carries text, and
\* pushes of the same source to hosts of the two classes carry the same
\* content.
C13_Encoding ==
    /\ \A p \in pushes :
          p.rep = IF platform(p.host) = "nxos" THEN "bytes" ELSE "text"
    /\ \A p \in pushes : \A q \in pushes :
          (p.backup = q.backup /\ p.rep # q.rep) => p.content = q.content

\* C13 witness: a rollback was pushed to an nxos host and to an eos host,
\* after the fresh deployment to both.
C13_Witness ==
    \E p \in pushes : \E q \in pushes :
        /\ p.backup /\ q.backup
        /\ platform(p.host) = "nxos" /\ platform(q.host) = "eos"
        /\ \E r \in pushes : ~r.backup /\ r.host = p.host
        /\ \E r \in pushes : ~r.backup /\ r.host = q.host

BackupFailed(h) == host_task[h] = [stage |-> "BACKUP", status |-> "failed"]

\* C18: in deploy.py a push is issued only when the backup succeeded for
\* every host, and after a failed backup of any host the run does not leave
\* the backup stage except to exit with code 1, before any render, write
\* or deploy stage.
C18_BackupGuards ==
    program = "deploy"
    => /\ pushes # {}
            => \A h \in Hosts : ~BackupFailed(h) /\ backup_config[h] # "unset"
       /\ (\E h \in Hosts : BackupFailed(h))
            => /\ stage \in {"BACKUP", "ABORTED"}
               /\ history = <<"BACKUP">>
               /\ stage = "ABORTED" => exit_code = 1
               /\ \A h \in Hosts : host_task[h].stage \in {"NONE", "BACKUP"}
       /\ stage = "ABORTED" => \E h \in Hosts : BackupFailed(h)

\* C18 witness: deploy.py exited with code 1 after the backup failed for
\* one host and succeeded for another.
C18_Witness ==
    /\ program = "deploy"
    /\ stage = "ABORTED"
    /\ exit_code = 1
    /\ \E h \in Hosts : BackupFailed(h)
    /\ \E h \in Hosts : host_task[h] = [stage |-> "BACKUP", status |-> "ok"]

RollbackCount == Cardinality({i \in 1 .. Len(history) : history[i] = "ROLLBACK"})

\* Once the rollback is entered no further stage is entered, and once it
\* returned nothing changes any more.
RollbackLast ==
    /\ RollbackIssued => history' = history
    /\ stage = "ROLLED_BACK"
         => /\ stage' = stage
            /\ pushes' = pushes
            /\ host_task' = host_task
            /\ validate_task_napalm' = validate_task_napalm
            /\ validate_task_netmiko' = validate_task_netmiko

\* C19: the rollback stage is entered at most once, and after the rollback
\* push completed for all hosts, failed or not, the process has ended and
\* no further push or validation is issued.
C19_RollbackTerminal ==
    /\ [](/\ RollbackCount <= 1
          /\ stage = "ROLLED_BACK" => (exit_code # -1 /\ queue = {} /\ run_on = {}))
    /\ [][RollbackLast]_vars

\* C19 witness: the run ended after a rollback that failed for one host and
\* succeeded for another.
C19_Witness ==
    /\ stage = "ROLLED_BACK"
    /\ \E p \in pushes : p.backup /\ ~p.ok
    /\ \E p \in pushes : p.backup /\ p.ok

====
